---- MODULE Spec2Model ----
(***************************************************************************)
(* Model of the settings dialogs of the "Paste Images As WebP" add-on:     *)
(* gui.py (SettingsDialog, BulkConvertDialog, PasteDialog,                 *)
(* SettingsMenuDialog) and widgets/image_slider_box.py (ImageSliderBox).   *)
(* One dialog is alive at a time; a run opens dialogs one after another    *)
(* against the process-wide configuration map.                             *)
(***************************************************************************)
EXTENDS Integers, Sequences, FiniteSets, TLC

\* ------------------------------------------------------------------ bounds

\* User actions in one run: control changes, refused confirms and the
\* opening of a further dialog.
MaxEvents == 3
\* Presets the presets editor is filled up to by the user.
MaxPresets == 2

\* ------------------------------------------------------------ program data

\* image_slider_box.py: limit of the quality slider.
QualityLimit == 100

\* gui.py, create_scale_options_grid: factors = (1/8, 1/4, 1/2, 1, 1.5, 2),
\* each kept as the exact fraction <<numerator, denominator>>.
factors == << <<1, 8>>, <<1, 4>>, <<1, 2>>, <<1, 1>>, <<3, 2>>, <<2, 1>> >>

SliderKeys == {"image_width", "image_height", "image_quality"}

\* gui.py, SettingsMenuDialog.__checkboxes: the keys of the behaviour checkboxes.
CheckboxKeys == {"drag_and_drop", "copy_paste", "avoid_upscaling",
                 "preserve_original_filenames"}

\* utils.ShowOptions: the names of the enumeration, in declaration order.
ShowOptions == <<"always", "menus", "never">>

\* utils.FilePathFactory().patterns_populated: the filename patterns on offer.
patterns_populated == <<"pattern0", "pattern1">>

Variants == {"base", "bulk", "paste", "menu"}

\* ----------------------------------------------------------------- inputs

\* Values a user (or a configuration file) asks a slider to take.
SliderInputs == {-1, 0, 2000}

\* Sizes of the image being pasted (ImageDimensions).
ImageInputs == { [width |-> 800, height |-> 600], [width |-> 7, height |-> 5] }

\* Field names of the selected notes, as get_all_keys returns them (sorted).
FieldInputs == { <<>>, <<"Back", "Front">> }

PresetNames == {"p"}

PresetA == [name |-> "p", params |-> [image_width |-> 0, image_height |-> 2000, image_quality |-> 50]]
PresetB == [name |-> "p", params |-> [image_width |-> 15, image_height |-> 15, image_quality |-> 101]]

\* ---------------------------------------------------------------- helpers

Min(a, b) == IF a < b THEN a ELSE b
Max(a, b) == IF a < b THEN b ELSE a

\* dict.get(key, default)
Get(cfg, key, default) == IF key \in DOMAIN cfg THEN cfg[key] ELSE default

\* config[key] = value
Put(cfg, key, value) ==
    [k \in (DOMAIN cfg) \cup {key} |-> IF k = key THEN value ELSE cfg[k]]

\* config.update(d)
Update(cfg, d) ==
    [k \in (DOMAIN cfg) \cup (DOMAIN d) |-> IF k \in DOMAIN d THEN d[k] ELSE cfg[k]]

\* A scaling that rounds up instead of dropping the fraction.
IntTimes_up(x, f) == (x * f[1] + f[2] - 1) \div f[2]

\* int(x * f) for x >= 0 and f = num/den: Python's int() drops the fraction.
IntTimes(x, f) == (x * f[1]) \div f[2]

\* ----------------------------------------------------------- RichSlider

\* RichSlider(title, unit, limit): a bounded integer control.
RichSlider(limit) == [value |-> 0, limit |-> limit]

\* RichSlider.value setter: the value is kept within 0..limit.
SetValue(slider, v) == [slider EXCEPT !.value = Max(0, Min(v, slider.limit))]

\* ------------------------------------------------------- ImageSliderBox

\* A box that hands each of the two limits to the other slider.
ImageSliderBox_swapped(max_width, max_height) ==
    [image_width |-> RichSlider(max_height),
     image_height |-> RichSlider(max_width),
     image_quality |-> RichSlider(QualityLimit)]

\* image_slider_box.py, ImageSliderBox.__init__
ImageSliderBox(max_width, max_height) ==
    [image_width |-> RichSlider(max_width),
     image_height |-> RichSlider(max_height),
     image_quality |-> RichSlider(QualityLimit)]

\* image_slider_box.py, ImageSliderBox.as_dict
as_dict(box) == [key \in SliderKeys |-> box[key].value]

\* A load that fills the two dimensions and resets the quality.
populate_dimensions(box, cfg) ==
    [key \in SliderKeys |->
        IF key = "image_quality" THEN SetValue(box[key], 0)
        ELSE SetValue(box[key], cfg[key])]

\* image_slider_box.py, ImageSliderBox.populate
populate(box, cfg) == [key \in SliderKeys |-> SetValue(box[key], cfg[key])]

\* image_slider_box.py, ImageSliderBox.width / height setters
SetWidth(box, v) == [box EXCEPT !.image_width = SetValue(@, v)]
SetHeight(box, v) == [box EXCEPT !.image_height = SetValue(@, v)]

\* A scaling that also resets the quality to the top of its range.
adjust_sliders_quality(box, image, f) ==
    LET w == IntTimes(image.width, f)
        h == IntTimes(image.height, f)
        s1 == IF box.image_width.value > 0
              THEN [box |-> SetWidth(box, w), calls |-> << <<"image_width", w>> >>]
              ELSE [box |-> box, calls |-> <<>>]
        s2 == IF s1.box.image_height.value > 0
              THEN [box |-> SetHeight(s1.box, h),
                    calls |-> Append(s1.calls, <<"image_height", h>>)]
              ELSE s1
    IN [box |-> [s2.box EXCEPT !.image_quality = SetValue(@, QualityLimit)],
        calls |-> s2.calls]

\* A scaling that multiplies the panel's current width and height.
adjust_sliders_relative(box, image, f) ==
    LET w == IntTimes(box.image_width.value, f)
        h == IntTimes(box.image_height.value, f)
        s1 == IF box.image_width.value > 0
              THEN [box |-> SetWidth(box, w), calls |-> << <<"image_width", w>> >>]
              ELSE [box |-> box, calls |-> <<>>]
    IN IF s1.box.image_height.value > 0
       THEN [box |-> SetHeight(s1.box, h),
             calls |-> Append(s1.calls, <<"image_height", h>>)]
       ELSE s1

\* A scaling that sets both dimensions whatever their current values.
adjust_sliders_unguarded(box, image, f) ==
    [box |-> SetHeight(SetWidth(box, IntTimes(image.width, f)),
                       IntTimes(image.height, f)),
     calls |-> << <<"image_width", IntTimes(image.width, f)>>,
                  <<"image_height", IntTimes(image.height, f)>> >>]

\* A scaling that derives both dimensions from the original width.
adjust_sliders_square(box, image, f) ==
    LET w == IntTimes(image.width, f)
        s1 == IF box.image_width.value > 0
              THEN [box |-> SetWidth(box, w), calls |-> << <<"image_width", w>> >>]
              ELSE [box |-> box, calls |-> <<>>]
    IN IF s1.box.image_height.value > 0
       THEN [box |-> SetHeight(s1.box, w),
             calls |-> Append(s1.calls, <<"image_height", w>>)]
       ELSE s1

\* gui.py, PasteDialog.adjust_sliders: the box it leaves, and the values it
\* handed to the width and height setters, in call order.
adjust_sliders(box, image, f) ==
    LET w == IntTimes(image.width, f)
        h == IntTimes(image.height, f)
        s1 == IF box.image_width.value > 0
              THEN [box |-> SetWidth(box, w), calls |-> << <<"image_width", w>> >>]
              ELSE [box |-> box, calls |-> <<>>]
    IN IF s1.box.image_height.value > 0
       THEN [box |-> SetHeight(s1.box, h),
             calls |-> Append(s1.calls, <<"image_height", h>>)]
       ELSE s1

\* -------------------------------------------------------- FieldSelector

\* FieldSelector(): nothing on offer, nothing checked.
FieldSelector(enabled) == [enabled |-> enabled, available |-> <<>>, selected |-> {}]

Range(seq) == {seq[i] : i \in DOMAIN seq}

\* FieldSelector.add_fields(names)
add_fields(fs, names) == [fs EXCEPT !.available = @ \o names]

\* FieldSelector.set_fields(names): checks the saved names still on offer.
set_fields(fs, names) == [fs EXCEPT !.selected = Range(names) \cap Range(fs.available)]

RECURSIVE Filter(_, _)
Filter(seq, keep) ==
    IF seq = <<>> THEN <<>>
    ELSE (IF Head(seq) \in keep THEN <<Head(seq)>> ELSE <<>>) \o Filter(Tail(seq), keep)

\* FieldSelector.selected_fields(): the checked names, in the order on offer.
selected_fields(fs) == Filter(fs.available, fs.selected)

\* FieldSelector.isChecked()
isChecked(fs) == fs.enabled

\* -------------------------------------------------------- PresetsEditor

\* PresetsEditor.add_items(records)
add_items(list, records) == list \o records

\* PresetsEditor.as_list()
as_list(list) == list

RemoveAt(seq, i) == [j \in 1..(Len(seq) - 1) |-> IF j < i THEN seq[j] ELSE seq[j + 1]]

\* ShowOptions.index_of(name): position of the name, counted from 0.
index_of(name) ==
    IF \E i \in DOMAIN ShowOptions : ShowOptions[i] = name
    THEN (CHOOSE i \in DOMAIN ShowOptions : ShowOptions[i] = name) - 1
    ELSE 0

\* QComboBox.currentData() of the "Show this dialog" combo box.
currentData(index) == ShowOptions[index + 1]

\* ------------------------------------------------------------- commit

\* The list without the records that repeat an earlier one.
RECURSIVE Unique(_)
Unique(seq) ==
    IF seq = <<>> THEN <<>>
    ELSE LET rest == Unique(SubSeq(seq, 1, Len(seq) - 1))
             x == seq[Len(seq)]
         IN IF \E i \in DOMAIN rest : rest[i] = x THEN rest ELSE Append(rest, x)

\* A commit that saves each distinct preset once.
SettingsDialog_accept_unique(cfg, box, list) ==
    Put(Update(cfg, as_dict(box)), "saved_presets", Unique(as_list(list)))

\* A commit that saves the presets and forgets the sliders.
SettingsDialog_accept_presets_only(cfg, box, list) ==
    Put(cfg, "saved_presets", as_list(list))

\* A commit that also stores the width it saves as the width limit.
SettingsDialog_accept_with_limits(cfg, box, list) ==
    Put(Put(Update(cfg, as_dict(box)), "saved_presets", as_list(list)),
        "max_image_width", box.image_width.value)

\* gui.py, SettingsDialog.accept: the configuration after lines 81-82.
SettingsDialog_accept(cfg, box, list) ==
    Put(Update(cfg, as_dict(box)), "saved_presets", as_list(list))

\* A validation that looks only at the selection, not at the restriction.
NoFieldsSelected_unrestricted(fs) == ~isChecked(fs) /\ selected_fields(fs) = <<>>

\* gui.py, BulkConvertDialog.accept, line 117: the confirm is refused.
NoFieldsSelected(fs) == isChecked(fs) /\ selected_fields(fs) = <<>>

\* gui.py, BulkConvertDialog.accept: the configuration after lines 120-121.
BulkConvertDialog_accept(cfg, fs, checked) ==
    Put(Put(cfg, "bulk_convert_fields", selected_fields(fs)),
        "bulk_reconvert_webp", checked)

\* gui.py, SettingsMenuDialog.accept: the configuration after lines 226-229.
SettingsMenuDialog_accept(cfg, show, pattern, boxes) ==
    Update(Put(Put(cfg, "show_settings", currentData(show)),
               "filename_pattern_num", pattern),
           boxes)

\* --------------------------------------------------------------- state

VARIABLES
    config,      \* config.config: the process-wide configuration map
    persisted,   \* the map as write_config last saved it
    writes,      \* calls of write_config
    notices,     \* calls of showInfo
    opened,      \* dialogs constructed so far
    events,      \* user events handled so far
    at_open,     \* config, writes and notices when the current dialog was constructed
    kinds,       \* the classes of user events the current dialog has handled
    variant,     \* class of the current dialog
    pc,          \* lifecycle position of the current dialog
    phases,      \* the setup_ui phases the current dialog has run, in order
    layout,      \* the dialog's layout, as create_main_layout builds it
    main_vbox,   \* the widgets of _main_vbox, in order
    connected,   \* the button box's signals are connected to accept / reject
    result,      \* what QDialog.accept / QDialog.reject recorded
    sliders,     \* _sliders: the ImageSliderBox
    presets,     \* presets_editor: the list of preset records
    image,       \* PasteDialog.image
    fields,      \* BulkConvertDialog._field_selector
    reconvert,   \* BulkConvertDialog._reconvert_checkbox
    show,        \* SettingsMenuDialog.when_show_dialog_combo_box: current index
    pattern,     \* SettingsMenuDialog.filename_pattern_combo_box: current index
    checkboxes,  \* SettingsMenuDialog.checkboxes
    last         \* the last user event handled by the current dialog; again:
                 \* it is a press of the button pressed just before it

vars == <<config, persisted, writes, notices, opened, events, at_open, kinds, variant,
          pc, phases, layout, main_vbox, connected, result, sliders, presets,
          image, fields, reconvert, show, pattern, checkboxes, last>>

run_vars == <<opened, events>>
store_vars == <<config, persisted, writes>>
widget_vars == <<sliders, presets, fields, reconvert, show, pattern, checkboxes>>
frame_vars == <<layout, main_vbox, connected>>

NoEvent == [op |-> "none", f |-> 0, calls |-> <<>>, again |-> FALSE]
Event(op) == [op |-> op, f |-> 0, calls |-> <<>>, again |-> FALSE]

NoImage == [width |-> 0, height |-> 0]

\* The configuration maps a run starts from: the add-on's keys with their
\* defaults present; "saved_presets" and "filename_pattern_num" are the two
\* keys the code reads with a default of its own, so they may be missing.
FullConfig(limits, params, saved, sel) ==
    [max_image_width |-> limits[1], max_image_height |-> limits[2],
     image_width |-> params[1], image_height |-> params[2], image_quality |-> params[3],
     saved_presets |-> saved, bulk_convert_fields |-> sel, bulk_reconvert_webp |-> FALSE,
     show_settings |-> "menus", filename_pattern_num |-> 1,
     drag_and_drop |-> TRUE, copy_paste |-> FALSE, avoid_upscaling |-> FALSE,
     preserve_original_filenames |-> TRUE]

Without(cfg, keys) == [k \in (DOMAIN cfg) \ keys |-> cfg[k]]

InitConfigs ==
    { FullConfig(<<800, 1200>>, <<800, 600, 75>>, <<PresetB>>, <<"Front">>),
      FullConfig(<<1600, 1200>>, <<800, 600, 75>>, <<PresetA, PresetA>>, <<"Gone">>),
      Without(FullConfig(<<800, 1200>>, <<0, 2000, 101>>, <<>>, <<"Front">>),
              {"saved_presets", "filename_pattern_num"}) }

\* gui.py, __init__ of SettingsDialog and of its subclasses: the fields of a
\* dialog of class v as the constructors leave them.
Constructed(cfg, v, img, enabled) ==
    [variant |-> v,
     sliders |-> ImageSliderBox(cfg.max_image_width, cfg.max_image_height),
     presets |-> <<>>,
     image |-> img,
     fields |-> FieldSelector(enabled),
     reconvert |-> FALSE,
     show |-> 0,
     pattern |-> 0,
     checkboxes |-> [k \in CheckboxKeys |-> FALSE]]

\* What a caller may construct: the class, the pasted image's size (paste)
\* and whether the field selector starts out enabled (bulk-convert).
Dialogs(cfg) ==
    { Constructed(cfg, v, NoImage, TRUE) : v \in {"base", "menu"} }
    \cup { Constructed(cfg, "paste", img, TRUE) : img \in ImageInputs }
    \cup { Constructed(cfg, "bulk", NoImage, enabled) : enabled \in BOOLEAN }

Init ==
    /\ config \in InitConfigs
    /\ persisted = config
    /\ writes = 0
    /\ notices = 0
    /\ opened = 1
    /\ events = 0
    /\ at_open = [config |-> config, writes |-> 0, notices |-> 0]
    /\ kinds = {}
    /\ pc = "Constructed"
    /\ phases = <<>>
    /\ layout = <<>>
    /\ main_vbox = <<>>
    /\ connected = FALSE
    /\ result = "none"
    /\ last = NoEvent
    /\ \E d \in Dialogs(config) :
        /\ variant = d.variant
        /\ sliders = d.sliders
        /\ presets = d.presets
        /\ image = d.image
        /\ fields = d.fields
        /\ reconvert = d.reconvert
        /\ show = d.show
        /\ pattern = d.pattern
        /\ checkboxes = d.checkboxes

\* A caller constructs the next dialog once the current one has closed.
Open ==
    /\ pc \in {"Committed", "Cancelled"}
    /\ events < MaxEvents
    /\ opened' = opened + 1
    /\ events' = events + 1
    /\ at_open' = [config |-> config, writes |-> writes, notices |-> notices]
    /\ kinds' = {}
    /\ pc' = "Constructed"
    /\ phases' = <<>>
    /\ layout' = <<>>
    /\ main_vbox' = <<>>
    /\ connected' = FALSE
    /\ result' = "none"
    /\ last' = NoEvent
    /\ \E d \in Dialogs(config) :
        /\ variant' = d.variant
        /\ sliders' = d.sliders
        /\ presets' = d.presets
        /\ image' = d.image
        /\ fields' = d.fields
        /\ reconvert' = d.reconvert
        /\ show' = d.show
        /\ pattern' = d.pattern
        /\ checkboxes' = d.checkboxes
    /\ UNCHANGED <<store_vars, notices>>

\* ------------------------------------------------- exec(): setup_ui phases

\* gui.py, SettingsDialog.create_main_layout (first statement of setup_ui)
create_main_layout ==
    /\ pc = "Constructed"
    /\ layout' = <<"_main_vbox", "stretch", "_button_box">>
    /\ phases' = Append(phases, "create_main_layout")
    /\ pc' = "Built"
    /\ UNCHANGED <<store_vars, run_vars, notices, at_open, kinds, variant, main_vbox,
                   connected, result, widget_vars, image, last>>

\* An override that adds its own sections before calling the base class.
main_vbox_of_own_first(v) ==
    (CASE v = "bulk" -> <<"_field_selector", "_reconvert_checkbox">>
       [] v = "paste" -> <<"scale_settings_group_box">>
       [] v = "menu" -> <<"additional_settings_group_box">>
       [] OTHER -> <<>>)
    \o <<"_sliders", "presets_editor">>

\* gui.py, populate_main_vbox of the dialog's class
main_vbox_of(v) ==
    <<"_sliders", "presets_editor">> \o
    (CASE v = "bulk" -> <<"_field_selector", "_reconvert_checkbox">>
       [] v = "paste" -> <<"scale_settings_group_box">>
       [] v = "menu" -> <<"additional_settings_group_box">>
       [] OTHER -> <<>>)

populate_main_vbox ==
    /\ pc = "Built"
    /\ main_vbox' = main_vbox \o main_vbox_of(variant)
    /\ phases' = Append(phases, "populate_main_vbox")
    /\ pc' = "Populated"
    /\ UNCHANGED <<store_vars, run_vars, notices, at_open, kinds, variant, layout,
                   connected, result, widget_vars, image, last>>

\* gui.py, SettingsDialog.setup_logic
setup_logic ==
    /\ pc = "Populated"
    /\ connected' = TRUE
    /\ phases' = Append(phases, "setup_logic")
    /\ pc' = "Wired"
    /\ UNCHANGED <<store_vars, run_vars, notices, at_open, kinds, variant, layout,
                   main_vbox, result, widget_vars, image, last>>

\* gui.py, BulkConvertDialog.set_initial_values, lines 111-113: the field
\* selector and the checkbox it leaves, given the notes' field names.
BulkConvertDialog_set_initial_values(fs, cfg, names) ==
    [fields |-> set_fields(add_fields(fs, names), cfg.bulk_convert_fields),
     reconvert |-> cfg.bulk_reconvert_webp]

\* An override that loads the two combo boxes and leaves the checkboxes alone.
SettingsMenuDialog_set_initial_values_combos(cfg, boxes) ==
    [show |-> index_of(cfg.show_settings),
     pattern |-> Get(cfg, "filename_pattern_num", 0),
     checkboxes |-> boxes]

\* gui.py, SettingsMenuDialog.set_initial_values, lines 213-217
SettingsMenuDialog_set_initial_values(cfg, boxes) ==
    [show |-> index_of(cfg.show_settings),
     pattern |-> Get(cfg, "filename_pattern_num", 0),
     checkboxes |-> [k \in DOMAIN boxes |-> cfg[k]]]

\* gui.py, set_initial_values of the dialog's class. The field names come
\* from the notes selected in the browser.
set_initial_values ==
    /\ pc = "Wired"
    /\ sliders' = populate(sliders, config)
    /\ presets' = add_items(presets, Get(config, "saved_presets", <<>>))
    /\ IF variant = "bulk"
       THEN \E names \in FieldInputs :
              LET own == BulkConvertDialog_set_initial_values(fields, config, names)
              IN /\ fields' = own.fields
                 /\ reconvert' = own.reconvert
       ELSE UNCHANGED <<fields, reconvert>>
    /\ IF variant = "menu"
       THEN LET own == SettingsMenuDialog_set_initial_values(config, checkboxes)
            IN /\ show' = own.show
               /\ pattern' = own.pattern
               /\ checkboxes' = own.checkboxes
       ELSE UNCHANGED <<show, pattern, checkboxes>>
    /\ phases' = Append(phases, "set_initial_values")
    /\ pc' = "Loaded"
    /\ UNCHANGED <<store_vars, run_vars, notices, at_open, kinds, variant, frame_vars,
                   result, image, last>>

\* gui.py, SettingsDialog.exec, line 58: super().exec() starts the event loop.
exec_loop ==
    /\ pc = "Loaded"
    /\ pc' = "Interactive"
    /\ UNCHANGED <<store_vars, run_vars, notices, at_open, kinds, variant, phases,
                   frame_vars, result, widget_vars, image, last>>

\* ----------------------------------------------------------- user events

\* Events delivered as soon as the signals are connected.
EventLoopRunning_on_connect == connected /\ pc \notin {"Committed", "Cancelled"}

\* gui.py, SettingsDialog.exec, line 58: the event loop of QDialog.exec is
\* running, so user events reach the dialog.
EventLoopRunning == pc = "Interactive"

CanHandle == EventLoopRunning /\ events < MaxEvents

\* The class of a user event: an edit of the presets list, a press of a scale
\* button, or anything else.
KindOf(op) ==
    CASE op \in {"add_preset", "remove_preset"} -> "preset_edit"
      [] op = "press_scale" -> "scale"
      [] OTHER -> "other"

Handled(e) ==
    /\ events' = events + 1
    /\ last' = e
    /\ kinds' = kinds \cup {KindOf(e.op)}
    /\ UNCHANGED <<store_vars, notices, opened, at_open, variant, pc, phases,
                   frame_vars, result, image>>

\* The user moves a slider (RichSlider.value is set).
move_slider(key, v) ==
    /\ CanHandle
    /\ sliders' = [sliders EXCEPT ![key] = SetValue(@, v)]
    /\ Handled(Event("move_slider"))
    /\ UNCHANGED <<presets, fields, reconvert, show, pattern, checkboxes>>

\* PresetsEditor: the user saves the sliders' values as a preset.
add_preset(name) ==
    /\ CanHandle
    /\ Len(presets) < MaxPresets
    /\ presets' = Append(presets, [name |-> name, params |-> as_dict(sliders)])
    /\ Handled(Event("add_preset"))
    /\ UNCHANGED <<sliders, fields, reconvert, show, pattern, checkboxes>>

\* PresetsEditor: the user removes the preset at position i.
remove_preset(i) ==
    /\ CanHandle
    /\ i \in DOMAIN presets
    /\ presets' = RemoveAt(presets, i)
    /\ Handled(Event("remove_preset"))
    /\ UNCHANGED <<sliders, fields, reconvert, show, pattern, checkboxes>>

\* PresetsEditor: the user applies the preset at position i to the sliders.
apply_preset(i) ==
    /\ CanHandle
    /\ i \in DOMAIN presets
    /\ sliders' = populate(sliders, presets[i].params)
    /\ Handled(Event("apply_preset"))
    /\ UNCHANGED <<presets, fields, reconvert, show, pattern, checkboxes>>

\* gui.py, create_scale_options_grid, line 160: the button of factors[i] is
\* clicked and calls adjust_sliders.
press_scale(i) ==
    /\ CanHandle
    /\ variant = "paste"
    /\ LET done == adjust_sliders(sliders, image, factors[i])
       IN /\ sliders' = done.box
          /\ Handled([op |-> "press_scale", f |-> i, calls |-> done.calls,
                      again |-> last.op = "press_scale" /\ last.f = i])
    /\ UNCHANGED <<presets, fields, reconvert, show, pattern, checkboxes>>

\* FieldSelector: the user checks or unchecks a field name.
toggle_field(name) ==
    /\ CanHandle
    /\ variant = "bulk"
    /\ name \in Range(fields.available)
    /\ fields' = [fields EXCEPT !.selected =
                     IF name \in @ THEN @ \ {name} ELSE @ \cup {name}]
    /\ Handled(Event("toggle_field"))
    /\ UNCHANGED <<sliders, presets, reconvert, show, pattern, checkboxes>>

\* FieldSelector: the user switches field restriction on or off.
toggle_restriction ==
    /\ CanHandle
    /\ variant = "bulk"
    /\ fields' = [fields EXCEPT !.enabled = ~@]
    /\ Handled(Event("toggle_restriction"))
    /\ UNCHANGED <<sliders, presets, reconvert, show, pattern, checkboxes>>

\* The user toggles "Reconvert existing WebP images".
toggle_reconvert ==
    /\ CanHandle
    /\ variant = "bulk"
    /\ reconvert' = ~reconvert
    /\ Handled(Event("toggle_reconvert"))
    /\ UNCHANGED <<sliders, presets, fields, show, pattern, checkboxes>>

\* The user picks an entry of the "Show this dialog" combo box.
choose_show(i) ==
    /\ CanHandle
    /\ variant = "menu"
    /\ show' = i
    /\ Handled(Event("choose_show"))
    /\ UNCHANGED <<sliders, presets, fields, reconvert, pattern, checkboxes>>

\* The user picks an entry of the "Filename pattern" combo box.
choose_pattern(i) ==
    /\ CanHandle
    /\ variant = "menu"
    /\ pattern' = i
    /\ Handled(Event("choose_pattern"))
    /\ UNCHANGED <<sliders, presets, fields, reconvert, show, checkboxes>>

\* The user toggles one of the behaviour checkboxes.
toggle_checkbox(key) ==
    /\ CanHandle
    /\ variant = "menu"
    /\ checkboxes' = [checkboxes EXCEPT ![key] = ~@]
    /\ Handled(Event("toggle_checkbox"))
    /\ UNCHANGED <<sliders, presets, fields, reconvert, show, pattern>>

\* ------------------------------------------------------ confirm / cancel

\* gui.py, accept of the dialog's class, up to the call of
\* SettingsDialog.accept: the keys the subclass writes first.
accept_own(cfg) ==
    CASE variant = "bulk" -> BulkConvertDialog_accept(cfg, fields, reconvert)
      [] variant = "menu" -> SettingsMenuDialog_accept(cfg, show, pattern, checkboxes)
      [] OTHER -> cfg

\* A refusal that has already written the subclass's keys when it validates.
accept_refused_after_write ==
    /\ EventLoopRunning /\ connected
    /\ events < MaxEvents
    /\ variant = "bulk"
    /\ NoFieldsSelected(fields)
    /\ config' = BulkConvertDialog_accept(config, fields, reconvert)
    /\ notices' = notices + 1
    /\ events' = events + 1
    /\ last' = Event("accept_refused")
    /\ kinds' = kinds \cup {KindOf("accept_refused")}
    /\ UNCHANGED <<persisted, writes, opened, at_open, variant, pc, phases,
                   frame_vars, result, widget_vars, image>>

\* A refusal that notifies and then closes the dialog as rejected.
accept_refused_closing ==
    /\ EventLoopRunning /\ connected
    /\ events < MaxEvents
    /\ variant = "bulk"
    /\ NoFieldsSelected(fields)
    /\ notices' = notices + 1
    /\ events' = events + 1
    /\ last' = Event("accept_refused")
    /\ kinds' = kinds \cup {KindOf("accept_refused")}
    /\ result' = "rejected"
    /\ pc' = "Cancelled"
    /\ UNCHANGED <<store_vars, opened, at_open, variant, phases, frame_vars,
                   widget_vars, image>>

\* gui.py, BulkConvertDialog.accept, lines 117-118: showInfo, no return value,
\* the dialog stays open.
accept_refused ==
    /\ EventLoopRunning /\ connected
    /\ events < MaxEvents
    /\ variant = "bulk"
    /\ NoFieldsSelected(fields)
    /\ notices' = notices + 1
    /\ events' = events + 1
    /\ last' = Event("accept_refused")
    /\ kinds' = kinds \cup {KindOf("accept_refused")}
    /\ UNCHANGED <<store_vars, opened, at_open, variant, pc, phases, frame_vars,
                   result, widget_vars, image>>

\* A commit that saves the map before the base class has written its keys.
accept_statements_save_first(v) ==
    (IF v \in {"bulk", "menu"} THEN <<"own_keys">> ELSE <<>>)
    \o <<"write_config", "base_keys", "QDialog.accept">>

\* gui.py, the statements a successful accept of class v runs, in order: the
\* subclass's own writes (120-121, 226-229), then SettingsDialog.accept: its
\* writes (81-82), write_config() (83), super().accept() (84).
accept_statements(v) ==
    (IF v \in {"bulk", "menu"} THEN <<"own_keys">> ELSE <<>>)
    \o <<"base_keys", "write_config", "QDialog.accept">>

\* The effect of one statement of accept on the configuration, on the map
\* write_config saved, on the count of its calls and on the dialog's result.
run_statement(run, stmt) ==
    LET logged == [run EXCEPT !.log = Append(@, stmt)]
    IN CASE stmt = "own_keys" ->
              [logged EXCEPT !.config = accept_own(run.config)]
         [] stmt = "base_keys" ->
              [logged EXCEPT !.config = SettingsDialog_accept(run.config, sliders, presets)]
         [] stmt = "write_config" ->
              [logged EXCEPT !.persisted = run.config, !.writes = run.writes + 1]
         [] stmt = "QDialog.accept" ->
              [logged EXCEPT !.result = "accepted"]

RECURSIVE run_statements(_, _)
run_statements(run, stmts) ==
    IF stmts = <<>> THEN run
    ELSE run_statements(run_statement(run, Head(stmts)), Tail(stmts))

\* gui.py, accept of the dialog's class ending in SettingsDialog.accept:
\* the configuration is written, write_config saves it, QDialog.accept closes.
accept ==
    /\ EventLoopRunning /\ connected
    /\ ~(variant = "bulk" /\ NoFieldsSelected(fields))
    /\ LET done == run_statements([config |-> config, persisted |-> persisted,
                                   writes |-> writes, result |-> result,
                                   log |-> <<>>],
                                  accept_statements(variant))
       IN /\ config' = done.config
          /\ persisted' = done.persisted
          /\ writes' = done.writes
          /\ result' = done.result
          /\ last' = [op |-> "accept", f |-> 0, calls |-> done.log, again |-> FALSE]
    /\ pc' = "Committed"
    /\ UNCHANGED <<run_vars, notices, at_open, kinds, variant, phases, frame_vars,
                   widget_vars, image>>

\* A cancel button wired to the commit: it saves before closing as rejected.
reject_saving ==
    /\ EventLoopRunning /\ connected
    /\ config' = SettingsDialog_accept(accept_own(config), sliders, presets)
    /\ persisted' = config'
    /\ writes' = writes + 1
    /\ result' = "rejected"
    /\ pc' = "Cancelled"
    /\ last' = Event("reject")
    /\ UNCHANGED <<run_vars, notices, at_open, kinds, variant, phases, frame_vars,
                   widget_vars, image>>

\* QDialog.reject, connected to the button box's rejected signal.
reject ==
    /\ EventLoopRunning /\ connected
    /\ result' = "rejected"
    /\ pc' = "Cancelled"
    /\ last' = Event("reject")
    /\ UNCHANGED <<store_vars, run_vars, notices, at_open, kinds, variant, phases,
                   frame_vars, widget_vars, image>>

Next ==
    \/ Open
    \/ create_main_layout
    \/ populate_main_vbox
    \/ setup_logic
    \/ set_initial_values
    \/ exec_loop
    \/ \E key \in SliderKeys, v \in SliderInputs : move_slider(key, v)
    \/ \E name \in PresetNames : add_preset(name)
    \/ \E i \in 1..MaxPresets : remove_preset(i)
    \/ \E i \in 1..MaxPresets : apply_preset(i)
    \/ \E i \in DOMAIN factors : press_scale(i)
    \/ \E name \in UNION {Range(names) : names \in FieldInputs} : toggle_field(name)
    \/ toggle_restriction
    \/ toggle_reconvert
    \/ \E i \in 0..(Len(ShowOptions) - 1) : choose_show(i)
    \/ \E i \in 0..(Len(patterns_populated) - 1) : choose_pattern(i)
    \/ \E key \in CheckboxKeys : toggle_checkbox(key)
    \/ accept_refused
    \/ accept
    \/ reject

Spec == Init /\ [][Next]_vars

\* ================================================================ claims

Clamp(v, lo, hi) == IF v < lo THEN lo ELSE IF v > hi THEN hi ELSE v

\* The largest integer q with q * d <= n, found by search.
Floor(n, d) == CHOOSE q \in 0..n : q * d <= n /\ n < (q + 1) * d

\* The integer nearest to n / d, a tie going to the even neighbour.
Round(n, d) ==
    LET q == Floor(n, d)
        r == n - q * d
    IN IF 2 * r < d THEN q
       ELSE IF 2 * r > d THEN q + 1
       ELSE IF q % 2 = 0 THEN q ELSE q + 1

\* A step in which the user's confirm reaches the dialog's accept.
ConfirmStep == accept \/ accept_refused

\* C1: commit-or-nothing. A confirm of the bulk-convert dialog made while
\* field restriction is enabled and no field is selected changes no key of the
\* configuration, does not call write_config, reports no acceptance and leaves
\* the dialog open.
C1_CommitOrNothing ==
    [][(ConfirmStep /\ variant = "bulk" /\ isChecked(fields)
            /\ selected_fields(fields) = <<>>)
        => /\ config' = config
           /\ DOMAIN config' = DOMAIN config
           /\ persisted' = persisted
           /\ writes' = writes
           /\ result' = "none"
           /\ pc' = "Interactive"]_vars

C1_Witness ==
    /\ last.op = "accept_refused"
    /\ variant = "bulk" /\ isChecked(fields) /\ selected_fields(fields) = <<>>
    /\ pc = "Interactive"
    /\ config = at_open.config

\* C2: cancellation has no side effects. Whatever the user did to the controls
\* of a dialog (of any class) before cancelling it, the configuration map of a
\* cancelled dialog equals the map the dialog was opened with, and
\* write_config has not been called since it was opened.
C2_CancelNoSideEffects ==
    pc = "Cancelled" =>
        /\ config = at_open.config
        /\ writes = at_open.writes

C2_Witness ==
    /\ pc = "Cancelled"
    /\ events = 2
    /\ variant = "bulk"
    /\ notices > 0
    /\ as_dict(sliders) # [k \in SliderKeys |-> config[k]]

\* What a press of the button of factors[i] hands to the setters when the
\* scaled value is computed by the operator scaled(n, d) of n / d.
CallsBy(scaled(_, _), i) ==
    (IF sliders.image_width.value # 0
     THEN << <<"image_width", scaled(image.width * factors[i][1], factors[i][2])>> >>
     ELSE <<>>)
    \o
    (IF sliders.image_height.value # 0
     THEN << <<"image_height", scaled(image.height * factors[i][1], factors[i][2])>> >>
     ELSE <<>>)

\* C3 as stated: a press of a scale button sets each non-zero dimension to the
\* original dimension times the factor, rounded to the nearest integer.
C3_Original ==
    [][\A i \in DOMAIN factors :
         press_scale(i) => last'.calls = CallsBy(Round, i)]_vars

\* C3 as amended: a press of a scale button sets each non-zero dimension to the
\* original dimension times the factor with the fraction dropped
\* (int(), i.e. the floor), and the slider then keeps that value within its
\* bounds; a zero dimension is not set.
C3_ScaleTruncates ==
    [][\A i \in DOMAIN factors :
         press_scale(i) =>
           /\ last'.calls = CallsBy(Floor, i)
           /\ sliders.image_width.value # 0 =>
                sliders'.image_width.value =
                  Clamp(Floor(image.width * factors[i][1], factors[i][2]),
                        0, sliders.image_width.limit)
           /\ sliders.image_height.value # 0 =>
                sliders'.image_height.value =
                  Clamp(Floor(image.height * factors[i][1], factors[i][2]),
                        0, sliders.image_height.limit)]_vars

\* A press of 1/8 on a 7 x 5 image: 0.875 and 0.625 are cut to 0.
C3_Witness ==
    /\ last.op = "press_scale" /\ last.f = 1
    /\ image = [width |-> 7, height |-> 5]
    /\ last.calls = << <<"image_width", 0>>, <<"image_height", 0>> >>
    /\ sliders.image_width.value = 0 /\ sliders.image_height.value = 0

\* C4: an auto dimension is preserved. A press of any scale button leaves a
\* width of 0 at 0 and a height of 0 at 0, whatever the original image size;
\* when both are 0 the press changes nothing of the panel.
C4_AutoPreserved ==
    [][\A i \in DOMAIN factors :
         press_scale(i) =>
           /\ sliders.image_width.value = 0 => sliders'.image_width.value = 0
           /\ sliders.image_height.value = 0 => sliders'.image_height.value = 0
           /\ (sliders.image_width.value = 0 /\ sliders.image_height.value = 0)
                => sliders' = sliders /\ last'.calls = <<>>]_vars

\* A press that scaled the height and left the width on auto.
C4_Witness ==
    /\ last.op = "press_scale"
    /\ sliders.image_width.value = 0
    /\ last.calls = << <<"image_height", 600>> >>
    /\ sliders.image_height.value = 600

Is800x600 ==
    /\ image = [width |-> 800, height |-> 600]
    /\ sliders.image_width.value = 800
    /\ sliders.image_height.value = 600

\* C5 as stated: from the panel {800, 600} of an 800 x 600 image, the
\* 0.5 button yields {400, 300} and the 2 button yields {1600, 1200}, whatever
\* the configured limits are.
C5_Original ==
    [][/\ (press_scale(3) /\ Is800x600) =>
            /\ sliders'.image_width.value = 400
            /\ sliders'.image_height.value = 300
       /\ (press_scale(6) /\ Is800x600) =>
            /\ sliders'.image_width.value = 1600
            /\ sliders'.image_height.value = 1200]_vars

\* C5 as amended: the 0.5 button yields {400, 300}; the 2 button yields
\* {min(1600, max_image_width), min(1200, max_image_height)}, which is
\* {1600, 1200} exactly when the limits are at least 1600 and 1200.
C5_ScaleExample ==
    [][/\ (press_scale(3) /\ Is800x600) =>
            /\ sliders'.image_width.value = 400
            /\ sliders'.image_height.value = 300
       /\ (press_scale(6) /\ Is800x600) =>
            /\ sliders'.image_width.value = Min(1600, config.max_image_width)
            /\ sliders'.image_height.value = Min(1200, config.max_image_height)]_vars

\* The 2 button pressed on {800, 600} under limits that admit the result.
C5_Witness ==
    /\ last.op = "press_scale"
    /\ last.f = 6
    /\ last.calls = << <<"image_width", 1600>>, <<"image_height", 1200>> >>
    /\ image = [width |-> 800, height |-> 600]
    /\ sliders.image_width.value = 1600
    /\ sliders.image_height.value = 1200

\* The limit the configuration sets for each slider.
LimitOf(key) ==
    CASE key = "image_width" -> at_open.config.max_image_width
      [] key = "image_height" -> at_open.config.max_image_height
      [] key = "image_quality" -> 100

\* C6: bound invariant. In every state of a dialog each of the three sliders
\* holds a value between 0 and its limit (max_image_width, max_image_height,
\* 100), and a slider asked to take v takes clamp(v, 0, limit).
C6_BoundInvariant ==
    /\ [](\A key \in SliderKeys :
            /\ sliders[key].limit = LimitOf(key)
            /\ 0 <= sliders[key].value
            /\ sliders[key].value <= LimitOf(key))
    /\ [][\A key \in SliderKeys, v \in SliderInputs :
            move_slider(key, v) => sliders'[key].value = Clamp(v, 0, LimitOf(key))]_vars
    /\ [][set_initial_values =>
            \A key \in SliderKeys :
              sliders'[key].value = Clamp(config[key], 0, LimitOf(key))]_vars
    /\ [][\A i \in DOMAIN presets :
            apply_preset(i) =>
              \A key \in SliderKeys :
                sliders'[key].value = Clamp(presets[i].params[key], 0, LimitOf(key))]_vars

\* Every slider at its limit: the height loaded from a configuration that
\* asked for more, the others moved there by the user.
C6_Witness ==
    /\ pc = "Interactive"
    /\ last.op = "move_slider"
    /\ config.image_height = 2000
    /\ sliders.image_height.value = config.max_image_height
    /\ sliders.image_width.value = config.max_image_width
    /\ sliders.image_quality.value = 100

\* gui.py, SettingsDialog.setup_ui: the four phases in the order of the calls.
PhaseOrder == <<"create_main_layout", "populate_main_vbox", "setup_logic",
                "set_initial_values">>

IsPrefix(a, b) == Len(a) <= Len(b) /\ \A i \in DOMAIN a : a[i] = b[i]

\* C7: lifecycle ordering. In every run of exec() of every dialog class the four
\* phases run in the order create_main_layout, populate_main_vbox,
\* setup_logic, set_initial_values, each exactly once and none skipped;
\* the dialog is interactive only after all four, and neither accept nor reject
\* runs before set_initial_values has completed, although accept is connected
\* by setup_logic, one phase earlier.
C7_LifecycleOrdering ==
    /\ [](/\ IsPrefix(phases, PhaseOrder)
          /\ (pc \in {"Loaded", "Interactive", "Committed", "Cancelled"}
                => phases = PhaseOrder)
          /\ (pc = "Wired" => connected /\ phases # PhaseOrder)
          /\ (result # "none" \/ last.op # "none" => phases = PhaseOrder))
    /\ [][phases' # phases =>
            \/ phases' = <<>>
            \/ /\ Len(phases) < Len(PhaseOrder)
               /\ phases' = Append(phases, PhaseOrder[Len(phases) + 1])]_vars
    /\ [][(config' # config \/ writes' # writes \/ notices' # notices
             \/ result' \notin {result, "none"})
          => phases = PhaseOrder]_vars

\* The second dialog of a run, committed after its own four phases.
C7_Witness ==
    /\ opened = 2
    /\ pc = "Committed"
    /\ result = "accepted"
    /\ phases = PhaseOrder
    /\ writes = at_open.writes + 1

\* A step that closes the dialog as accepted.
CommitStep == pc # "Committed" /\ pc' = "Committed"

\* C8: a commit writes every control. After a successful confirm the
\* configuration holds the three slider values and the presets list of the
\* moment of the confirm; for the bulk-convert dialog also the selected fields
\* and the reconvert checkbox; for the settings-menu dialog also the data of
\* the "show" combo box, the index of the filename-pattern combo box and the
\* four behaviour checkboxes.
C8_CommitWritesControls ==
    [][CommitStep =>
         /\ config'.image_width = sliders.image_width.value
         /\ config'.image_height = sliders.image_height.value
         /\ config'.image_quality = sliders.image_quality.value
         /\ config'.saved_presets = presets
         /\ variant = "bulk" =>
              /\ config'.bulk_convert_fields = selected_fields(fields)
              /\ config'.bulk_reconvert_webp = reconvert
         /\ variant = "menu" =>
              /\ config'.show_settings = ShowOptions[show + 1]
              /\ config'.filename_pattern_num = pattern
              /\ \A key \in CheckboxKeys : config'[key] = checkboxes[key]
         /\ UNCHANGED widget_vars]_vars

\* A settings-menu dialog committed after the user changed two controls.
C8_Witness ==
    /\ pc = "Committed"
    /\ variant = "menu"
    /\ events = 2
    /\ config.image_width # at_open.config.image_width
    /\ config.drag_and_drop # at_open.config.drag_and_drop
    /\ config.image_width = sliders.image_width.value
    /\ config.drag_and_drop = checkboxes.drag_and_drop

\* C9: the dialog state machine. Committed and Cancelled are terminal: from
\* either, nothing is written, saved, notified or changed in the dialog; all a
\* run can do is construct the next dialog. The configuration changes and
\* write_config is called only in the step from Interactive into Committed.
C9_StateMachine ==
    /\ [][(pc = "Committed" \/ pc = "Cancelled") =>
            /\ pc' = "Constructed" /\ opened' = opened + 1
            /\ UNCHANGED store_vars
            /\ notices' = notices]_vars
    /\ [][(config' # config \/ persisted' # persisted \/ writes' # writes)
            => /\ pc = "Interactive" /\ pc' = "Committed"
               /\ writes' = writes + 1]_vars
    /\ [][pc' # pc =>
            <<pc, pc'>> \in { <<"Constructed", "Built">>, <<"Built", "Populated">>,
                              <<"Populated", "Wired">>, <<"Wired", "Loaded">>,
                              <<"Loaded", "Interactive">>,
                              <<"Interactive", "Committed">>,
                              <<"Interactive", "Cancelled">>,
                              <<"Committed", "Constructed">>,
                              <<"Cancelled", "Constructed">> }]_vars

\* A refused confirm followed by a cancel, after an earlier dialog committed.
C9_Witness ==
    /\ pc = "Cancelled"
    /\ opened = 2
    /\ writes = 1
    /\ notices = 1
    /\ config = at_open.config

\* Parameter maps a panel may be asked to load.
ParamValues == {0, 100, 1201}
ParamMaps == [SliderKeys -> ParamValues]

InBounds(box, m) == \A key \in SliderKeys : 0 <= m[key] /\ m[key] <= box[key].limit

\* C10: round trip of the parameter panel. Loading a panel from its own
\* as_dict() leaves width, height and quality (and the limits) as they
\* were, and as_dict() after populate(m) returns m's three values whenever
\* they are within the sliders' bounds, whatever else m holds.
C10_RoundTrip ==
    /\ populate(sliders, as_dict(sliders)) = sliders
    /\ \A m \in ParamMaps :
         InBounds(sliders, m) => as_dict(populate(sliders, m)) = m
    /\ InBounds(sliders, config) =>
         as_dict(populate(sliders, config)) = [key \in SliderKeys |-> config[key]]

\* A preset saved from the panel and applied back to it: populate(as_dict()).
C10_Witness ==
    /\ last.op = "apply_preset"
    /\ events = 2
    /\ Len(presets) = 2
    /\ presets[2].params = as_dict(sliders)
    /\ sliders.image_width.value = 800
    /\ sliders.image_quality.value = 75
    /\ \E m \in ParamMaps : InBounds(sliders, m) /\ m # as_dict(sliders)
    /\ \E m \in ParamMaps : ~InBounds(sliders, m)

\* C11: preset order preservation through a dialog. A dialog opened on a
\* configuration whose saved_presets is L and confirmed without a preset added
\* or removed in between commits saved_presets = L: the same records in the same
\* order, records of one name kept apart; a missing key counts as the empty list.
C11_PresetOrder ==
    (pc = "Committed" /\ "preset_edit" \notin kinds) =>
        /\ "saved_presets" \in DOMAIN config
        /\ config.saved_presets =
             IF "saved_presets" \in DOMAIN at_open.config
             THEN at_open.config.saved_presets ELSE <<>>
        /\ presets = config.saved_presets

\* Two presets of one name kept through a dialog in which the user applied one
\* of them and moved a slider.
C11_Witness ==
    /\ pc = "Committed"
    /\ kinds = {"other"}
    /\ events = 2
    /\ "saved_presets" \in DOMAIN at_open.config
    /\ at_open.config.saved_presets = <<PresetA, PresetA>>
    /\ config.saved_presets = <<PresetA, PresetA>>
    /\ config.image_quality = 50
    /\ config # at_open.config

\* Position of statement x in a log, 0 when it is not there.
IndexOf(log, x) ==
    IF \E i \in DOMAIN log : log[i] = x
    THEN CHOOSE i \in DOMAIN log : log[i] = x /\ \A j \in 1..(i - 1) : log[j] # x
    ELSE 0

\* C12: persistence ordering. Every successful commit calls write_config
\* exactly once, after all of its configuration writes (the subclass's keys
\* and the base keys), so the map saved is the final committed map, and the
\* dialog is closed as accepted only after write_config.
C12_PersistenceOrdering ==
    [][CommitStep =>
         LET log == last'.calls
         IN /\ writes' = writes + 1
            /\ persisted' = config'
            /\ result' = "accepted"
            /\ Cardinality({i \in DOMAIN log : log[i] = "write_config"}) = 1
            /\ IndexOf(log, "base_keys") > 0
            /\ variant \in {"bulk", "menu"} => IndexOf(log, "own_keys") > 0
            /\ IndexOf(log, "own_keys") < IndexOf(log, "write_config")
            /\ IndexOf(log, "base_keys") < IndexOf(log, "write_config")
            /\ IndexOf(log, "write_config") < IndexOf(log, "QDialog.accept")
            /\ IndexOf(log, "QDialog.accept") = Len(log)]_vars

\* A bulk-convert commit that changed keys of the subclass and of the base
\* class, all of them in the saved map.
C12_Witness ==
    /\ pc = "Committed"
    /\ variant = "bulk"
    /\ last.calls = <<"own_keys", "base_keys", "write_config", "QDialog.accept">>
    /\ config.bulk_reconvert_webp # at_open.config.bulk_reconvert_webp
    /\ config.image_width # at_open.config.image_width
    /\ persisted = config
    /\ writes = at_open.writes + 1

\* The confirm of the bulk-convert dialog fails validation.
FailsValidation == variant = "bulk" /\ isChecked(fields) /\ selected_fields(fields) = <<>>

\* The current dialog has refused a confirm.
HasRefused == notices > at_open.notices

\* C13: recovery after a failed bulk validation. Each confirm that fails
\* validation raises exactly one notification and changes nothing else of the
\* dialog, and nothing else raises one. After a refusal the dialog is still
\* interactive: cancel can be taken and leaves the configuration as it was
\* at opening; a confirm can be taken as soon as a field is selected or the
\* restriction is off, and it commits the controls' values of that moment.
C13_Recovery ==
    /\ [][(ConfirmStep /\ FailsValidation) =>
            /\ notices' = notices + 1
            /\ pc' = "Interactive"
            /\ UNCHANGED widget_vars]_vars
    /\ [][notices' # notices =>
            /\ FailsValidation /\ pc = "Interactive"
            /\ notices' = notices + 1
            /\ last'.op = "accept_refused"]_vars
    /\ [](last.op = "accept_refused" => pc = "Interactive" /\ HasRefused)
    /\ []((HasRefused /\ pc = "Interactive") =>
            /\ ENABLED reject
            /\ ~FailsValidation => ENABLED accept)
    /\ [][(HasRefused /\ CommitStep) =>
            /\ ~FailsValidation
            /\ config'.bulk_convert_fields = selected_fields(fields)
            /\ config'.bulk_reconvert_webp = reconvert
            /\ \A key \in SliderKeys : config'[key] = sliders[key].value
            /\ config'.saved_presets = presets
            /\ persisted' = config']_vars
    /\ []((HasRefused /\ pc = "Cancelled") =>
            config = at_open.config /\ writes = at_open.writes)

\* Two refused confirms, then a field checked and the confirm accepted.
C13_Witness ==
    /\ pc = "Committed"
    /\ variant = "bulk"
    /\ notices = at_open.notices + 2
    /\ events = 3
    /\ isChecked(fields)
    /\ config.bulk_convert_fields = selected_fields(fields)
    /\ config.bulk_convert_fields # <<>>
    /\ config.bulk_convert_fields # at_open.config.bulk_convert_fields

\* The sections each specialization appends, in the order it declares them.
OwnSections ==
    [bulk |-> <<"_field_selector", "_reconvert_checkbox">>,
     paste |-> <<"scale_settings_group_box">>,
     menu |-> <<"additional_settings_group_box">>,
     base |-> <<>>]

\* C14: populate ordering. Once populate_main_vbox has run, the main layout
\* holds the base content first (the sliders, then the presets editor) and
\* after it the specialization's sections in declared order; nothing is in
\* the layout before, and nothing is added or moved afterwards.
C14_PopulateOrdering ==
    /\ pc \in {"Constructed", "Built"} => main_vbox = <<>>
    /\ pc \notin {"Constructed", "Built"} =>
         /\ Len(main_vbox) = 2 + Len(OwnSections[variant])
         /\ SubSeq(main_vbox, 1, 2) = <<"_sliders", "presets_editor">>
         /\ SubSeq(main_vbox, 3, Len(main_vbox)) = OwnSections[variant]

C14_Witness ==
    /\ pc = "Populated"
    /\ variant = "bulk"
    /\ phases = <<"create_main_layout", "populate_main_vbox">>
    /\ main_vbox = <<"_sliders", "presets_editor", "_field_selector",
                     "_reconvert_checkbox">>

\* The dialog has run set_initial_values and handled no user event yet.
JustLoaded == pc \in {"Loaded", "Interactive"} /\ kinds = {}

\* C15: load completeness. When a dialog becomes interactive every control
\* shows the current configuration: the three sliders (within their limits)
\* and the presets list; for bulk-convert also the fields on offer, the saved
\* fields among them checked, and the reconvert checkbox; for the settings
\* menu also both combo boxes and the four checkboxes.
C15_LoadComplete ==
    JustLoaded =>
        /\ config = at_open.config
        /\ \A key \in SliderKeys :
             sliders[key].value = Clamp(config[key], 0, LimitOf(key))
        /\ presets = (IF "saved_presets" \in DOMAIN config
                      THEN config.saved_presets ELSE <<>>)
        /\ variant = "bulk" =>
             /\ fields.available \in FieldInputs
             /\ fields.selected =
                  {n \in Range(fields.available) :
                     \E i \in DOMAIN config.bulk_convert_fields :
                        config.bulk_convert_fields[i] = n}
             /\ reconvert = config.bulk_reconvert_webp
        /\ variant = "menu" =>
             /\ ShowOptions[show + 1] = config.show_settings
             /\ pattern = (IF "filename_pattern_num" \in DOMAIN config
                           THEN config.filename_pattern_num ELSE 0)
             /\ \A key \in CheckboxKeys : checkboxes[key] = config[key]

\* A settings-menu dialog opened on what an earlier dialog committed.
C15_Witness ==
    /\ pc = "Interactive"
    /\ kinds = {}
    /\ opened = 2
    /\ variant = "menu"
    /\ writes = 1
    /\ config.drag_and_drop = FALSE
    /\ checkboxes.drag_and_drop = FALSE
    /\ checkboxes.preserve_original_filenames = TRUE
    /\ pattern = config.filename_pattern_num

\* C16: frame of a scale-button press. Whatever the factor and the panel's
\* state, a press leaves the quality slider's value, the three sliders' limits,
\* the presets list, the original image dimensions and the configuration (in
\* memory and saved) as they were; only the width and height values can differ.
C16_ScaleFrame ==
    [][\A i \in DOMAIN factors :
         press_scale(i) =>
           /\ sliders'.image_quality = sliders.image_quality
           /\ \A key \in SliderKeys : sliders'[key].limit = sliders[key].limit
           /\ presets' = presets
           /\ image' = image
           /\ config' = config
           /\ persisted' = persisted
           /\ writes' = writes]_vars

\* A press that changed the width and the height of a panel holding a preset
\* and a quality that is not the configured one.
C16_Witness ==
    /\ last.op = "press_scale"
    /\ last.f = 1
    /\ sliders.image_width.value = 100
    /\ sliders.image_height.value = 75
    /\ sliders.image_quality.value = 0
    /\ config.image_quality = 75
    /\ Len(presets) > 0

\* The paste dialog opened on two explicit dimensions and has handled scale
\* presses only.
OnlyScalePresses ==
    /\ variant = "paste"
    /\ pc = "Interactive"
    /\ kinds = {"scale"}
    /\ at_open.config.image_width > 0
    /\ at_open.config.image_height > 0

\* C17: history independence of scale presses. From a panel whose width and
\* height are both non-zero, after any non-empty sequence of presses the width
\* and height are the ones the last factor alone derives from the original
\* image (within the sliders' limits), whatever was pressed before.
C17_HistoryIndependence ==
    OnlyScalePresses =>
        /\ sliders.image_width.value =
             Clamp(Floor(image.width * factors[last.f][1], factors[last.f][2]),
                   0, sliders.image_width.limit)
        /\ sliders.image_height.value =
             Clamp(Floor(image.height * factors[last.f][1], factors[last.f][2]),
                   0, sliders.image_height.limit)

\* C18: idempotence of a scale press. Whatever the image, the panel's state and
\* the factor, pressing a button right after a press of the same button leaves
\* the width, height and quality sliders as the first press left them.
C18_ScaleIdempotent ==
    [][\A i \in DOMAIN factors :
         (press_scale(i) /\ last.op = "press_scale" /\ last.f = i) =>
             /\ sliders' = sliders
             /\ as_dict(sliders') = as_dict(sliders)]_vars

\* The 1/2 button pressed twice in a row on an 800 x 600 image.
C18_Witness ==
    /\ last.op = "press_scale"
    /\ last.again
    /\ last.f = 3
    /\ image = [width |-> 800, height |-> 600]
    /\ sliders.image_width.value = 400
    /\ sliders.image_height.value = 300
    /\ last.calls = << <<"image_width", 400>>, <<"image_height", 300>> >>

\* The keys a commit of a dialog of class v writes.
OwnedKeys(v) ==
    SliderKeys \cup {"saved_presets"}
    \cup (IF v = "bulk" THEN {"bulk_convert_fields", "bulk_reconvert_webp"} ELSE {})
    \cup (IF v = "menu"
          THEN {"show_settings", "filename_pattern_num"} \cup CheckboxKeys
          ELSE {})

\* C19: key frame of commit. A successful commit writes only the keys of its
\* dialog's class: every other key keeps its value and no other key appears;
\* no other step changes the configuration at all, so the slider limits
\* max_image_width and max_image_height never change, whatever dialogs are
\* opened, committed and cancelled.
C19_KeyFrame ==
    [][/\ \A k \in DOMAIN config \ OwnedKeys(variant) :
            k \in DOMAIN config' /\ config'[k] = config[k]
       /\ DOMAIN config' \subseteq DOMAIN config \cup OwnedKeys(variant)
       /\ ~CommitStep => config' = config
       /\ config'.max_image_width = config.max_image_width
       /\ config'.max_image_height = config.max_image_height
       /\ \A k \in DOMAIN persisted' \ OwnedKeys(variant) :
            k \in DOMAIN persisted /\ persisted'[k] = persisted[k]]_vars

\* A bulk-convert commit that changed keys of its own and of the base, on a
\* configuration that an earlier dialog had committed to.
C19_Witness ==
    /\ pc = "Committed"
    /\ variant = "bulk"
    /\ opened = 2
    /\ writes = 2
    /\ config.bulk_reconvert_webp # at_open.config.bulk_reconvert_webp
    /\ config.image_width # at_open.config.image_width
    /\ config.max_image_width = 1600
    /\ config.show_settings = at_open.config.show_settings
    /\ persisted = config

====
